---------------------------- MODULE Spec2Model ----------------------------
(***************************************************************************)
(* A model of devpi_server/keyfs.py: the transactional key/value engine    *)
(* (KeyFS, Transaction, FSWriter), its crash recovery of side files and    *)
(* the notification thread (TxNotificationThread).                         *)
(*                                                                         *)
(* The storage backend (storage/connection objects handed to KeyFS) is not *)
(* part of keyfs.py.  It is modelled from its contract: a connection       *)
(* stages its primary-index writes privately, write_changelog_entry is the *)
(* durability point that publishes the entry together with the staged      *)
(* index rows, and closing a connection drops what was not published.      *)
(*                                                                         *)
(* Side-file paths: the relative path "p-tmp" is the record                *)
(* [path |-> p, tmp |-> TRUE], "p" is [path |-> p, tmp |-> FALSE]; the     *)
(* test relpath.endswith("-tmp") is the tmp field.  Application paths are  *)
(* taken not to end in "-tmp" themselves.                                  *)
(***************************************************************************)
EXTENDS Integers, Sequences, FiniteSets, TLC

\* ---------------------------------------------------------------- bounds
MaxSerial == 2        \* serials 0 .. MaxSerial-1 can be committed
MaxVal == 1           \* values of a key are 0 .. MaxVal
MaxContent == 2       \* contents of a side file are 1 .. MaxContent
MaxCommits == 3       \* commits of write transactions that are recorded

MaxWrites == 2        \* entries written where several threads compete to write
MaxFired == 3         \* dispatches after which the process does not die any more
Threads == {"t1", "t2", "t3"}
Keys == {"k1", "k2"}
Paths == {"f1", "f2"}
Values == 0 .. MaxVal
Contents == 1 .. MaxContent

\* ---------------------------------------------------------- result codes
None == -1            \* Python's None: a deleted value, "delete this file"
KeyError == -2        \* KeyError(relpath)
AssertionError == -3  \* a failed assert
ReadOnly == -5        \* KeyFS.ReadOnly
NoRet == -4           \* nothing returned yet
ConnError == -6       \* the storage could not open a connection
EmptyVal == 0         \* typedkey.type() for an integer key
Missing == -1         \* the .event_serial file does not exist

EmptyMap == [x \in {} |-> 0]

Override(f, g) ==
    [x \in (DOMAIN f) \cup (DOMAIN g) |-> IF x \in DOMAIN g THEN g[x] ELSE f[x]]

Without(f, x) == [y \in (DOMAIN f) \ {x} |-> f[y]]

Max(S) == CHOOSE x \in S : \A y \in S : y <= x

VARIABLES
    \* the store: what survives a crash
    changelog,      \* sequence: changelog[s+1] is the entry written at serial s
    index,          \* primary index: relpath -> last_serial (published rows)
    files,          \* side files: path -> content, 0 = does not exist
    tmpfiles,       \* staged side files "path-tmp": path -> content, 0 = none
    evfile,         \* the integer in .event_serial, Missing = no file
    \* the process
    up,             \* a KeyFS instance is constructed and running
    next_serial,    \* storage.next_serial
    write_lock,     \* KeyFS._write_lock is held
    pc,             \* per thread: where it is in its transaction / commit
    tx,             \* per thread: the bound Transaction
    conn,           \* per thread: the connection of its transaction / import
    fsw,            \* per thread: the FSWriter of its commit / import
    ret,            \* per thread: what its last call returned or raised
    \* the notifier
    npc,            \* where thread_run is
    event_serial,   \* thread_run's local event_serial
    shutdown,       \* the thread's shutdown flag
    cv_tx,          \* who waits on cv_new_transaction
    wpc,            \* the caller of wait_event_serial / wait_tx_serial: "idle" |
                    \* "waiting" | "waiting_tx" | "woken" | "returned"
    wserial,        \* the serial it waits for
    \* history (not program state): what was observed
    state_after,    \* state_after[s+1]: key -> value held right after commit s
    commits,        \* the commits of write transactions and the imports that
                    \* returned, in order, each with the serial it returned
    fs_done,        \* the side files as the last written entry's commit leaves them
    crashed_in,     \* where the committing thread was when the process died
    fired,          \* serials whose hooks were executed, in order
    runfired,       \* number of elements of fired that this process run added
    \* the engine's mode, a master engine whose changes are imported, key calls
    readonly,       \* KeyFS._readonly
    master,         \* the changelog of the engine whose changes are imported
    pcall,          \* the last call of a PTypedKey and what it gave
    called          \* history: the subscriber calls of the notifier, in order

vars == << changelog, index, files, tmpfiles, evfile, up, next_serial, write_lock,
           pc, tx, conn, fsw, ret, npc, event_serial, shutdown, cv_tx, wpc,
           wserial, state_after, commits, fs_done, crashed_in, fired, runfired,
           readonly, master, pcall, called >>

confvars == << readonly, master, pcall, called >>
storevars == << changelog, index, files, tmpfiles, state_after, fs_done, crashed_in,
               confvars >>
notivars == << npc, event_serial, shutdown, cv_tx, wpc, wserial, evfile, fired,
               runfired >>

\* ------------------------------------------------------------- the storage
get_next_serial == next_serial

get_current_serial == next_serial - 1

\* Storage.get_changes(serial): the changes map of the entry written at serial
get_changes(serial) ==
    IF serial >= 0 /\ serial < Len(changelog)
    THEN changelog[serial + 1].changes
    ELSE EmptyMap

\* what a connection sees of the primary index: published rows and its own
ConnIndex(c) == Override(index, c.idx_writes)

\* Connection.db_read_typedkey
db_read_typedkey(c, relpath) ==
    IF relpath \in DOMAIN ConnIndex(c) THEN ConnIndex(c)[relpath] ELSE KeyError

NoConn == [idx_writes |-> EmptyMap, dirty_files |-> EmptyMap]

\* Storage.get_connection: a fresh connection
get_connection == NoConn

\* ------------------------------------------------------------ get_value_at
RECURSIVE walk_back(_, _, _)
walk_back(relpath, last_serial, at_serial) ==
    IF last_serial < 0 THEN KeyError
    ELSE LET changes == get_changes(last_serial)
         IN  IF relpath \notin DOMAIN changes THEN AssertionError
             ELSE LET tup == changes[relpath]
                  IN  IF last_serial > at_serial
                      THEN walk_back(relpath, tup.back_serial, at_serial)
                      ELSE IF tup.val # None THEN tup.val ELSE KeyError

\* get_value_at without the comparison with at_serial: the latest value
get_value_at_latest(relpath, at_serial, c) ==
    LET last_serial == db_read_typedkey(c, relpath)
    IN  IF last_serial = KeyError THEN KeyError
        ELSE walk_back(relpath, last_serial, last_serial)

get_value_at(relpath, at_serial, c) ==
    LET last_serial == db_read_typedkey(c, relpath)
    IN  IF last_serial = KeyError THEN KeyError
        ELSE walk_back(relpath, last_serial, at_serial)

\* ------------------------------------------------------------- Transaction
NoTx == [write |-> FALSE, at_serial |-> -1, cache |-> EmptyMap, dirty |-> {}]

NoFsw == [changes |-> EmptyMap, pending_renames |-> << >>, rel_renames |-> << >>,
          i |-> 0, commit_serial |-> -1, import |-> FALSE, written_at |-> -1]

\* Transaction.get: (value returned, cache afterwards)
tx_get(t, typedkey) ==
    IF typedkey \in DOMAIN tx[t].cache
    THEN [val |-> tx[t].cache[typedkey], cache |-> tx[t].cache]
    ELSE IF typedkey \in tx[t].dirty
         THEN [val |-> EmptyVal, cache |-> tx[t].cache]
         ELSE LET val == get_value_at(typedkey, tx[t].at_serial, conn[t])
              IN  IF val = KeyError
                  THEN [val |-> EmptyVal, cache |-> tx[t].cache]
                  ELSE IF val = AssertionError
                       THEN [val |-> AssertionError, cache |-> tx[t].cache]
                       ELSE [val |-> val,
                             cache |-> Override(tx[t].cache,
                                                [k \in {typedkey} |-> val])]

\* Transaction.exists
tx_exists(t, typedkey) ==
    IF typedkey \in DOMAIN tx[t].cache THEN TRUE
    ELSE IF typedkey \in tx[t].dirty THEN FALSE
         ELSE get_value_at(typedkey, tx[t].at_serial, conn[t]) # KeyError


\* Transaction.__init__
NewTx(write, at_serial) ==
    [write |-> write, at_serial |-> at_serial, cache |-> EmptyMap, dirty |-> {}]

\* Transaction._close, for the transaction bound to thread t
Close(t) ==
    /\ write_lock' = IF tx[t].write THEN FALSE ELSE write_lock
    /\ conn' = [conn EXCEPT ![t] = NoConn]
    /\ tx' = [tx EXCEPT ![t] = NoTx]
    /\ fsw' = [fsw EXCEPT ![t] = NoFsw]
    /\ pc' = [pc EXCEPT ![t] = "idle"]

\* KeyFS.begin_transaction_in_thread(write=False, at_serial): at_serial is a
\* committed serial; None stands for the current one
BeginRead(t, at_serial) ==
    /\ up /\ pc[t] = "idle"
    /\ at_serial \in -1 .. get_current_serial
    /\ tx' = [tx EXCEPT ![t] = NewTx(FALSE, at_serial)]
    /\ conn' = [conn EXCEPT ![t] = get_connection]
    /\ pc' = [pc EXCEPT ![t] = "open"]
    /\ UNCHANGED << storevars, notivars, up, next_serial, write_lock, fsw, ret,
                    commits >>

\* a mutex that never blocks
LockFreeAlways == TRUE

\* the write mutex can be taken
LockFree == ~write_lock

\* KeyFS.begin_transaction_in_thread(write=True): blocks until the mutex is
\* free, then pins at_serial to the current serial
BeginWrite(t) ==
    /\ up /\ pc[t] = "idle"
    /\ ~readonly
    /\ LockFree
    /\ write_lock' = TRUE
    /\ tx' = [tx EXCEPT ![t] = NewTx(TRUE, get_current_serial)]
    /\ conn' = [conn EXCEPT ![t] = get_connection]
    /\ pc' = [pc EXCEPT ![t] = "open"]
    /\ UNCHANGED << storevars, notivars, up, next_serial, fsw, ret, commits >>

\* a restart that keeps the snapshot of the read transaction
RestartAsWriteStale(t) ==
    /\ up /\ pc[t] = "open" /\ ~tx[t].write
    /\ LockFree
    /\ write_lock' = TRUE
    /\ tx' = [tx EXCEPT ![t] = NewTx(TRUE, tx[t].at_serial)]
    /\ conn' = [conn EXCEPT ![t] = get_connection]
    /\ UNCHANGED << storevars, notivars, up, next_serial, fsw, ret, commits, pc >>

\* a restart that does not look at the engine's mode
RestartAsWriteAnyMode(t) ==
    /\ up /\ pc[t] = "open" /\ ~tx[t].write
    /\ LockFree
    /\ write_lock' = TRUE
    /\ tx' = [tx EXCEPT ![t] = NewTx(TRUE, get_current_serial)]
    /\ conn' = [conn EXCEPT ![t] = get_connection]
    /\ UNCHANGED << storevars, notivars, up, next_serial, fsw, ret, commits, pc >>

\* KeyFS.restart_as_write_transaction on a read transaction: commit (close) it,
\* then initialise it anew as a write transaction
RestartAsWrite(t) ==
    /\ up /\ pc[t] = "open" /\ ~tx[t].write
    /\ ~readonly
    /\ LockFree
    /\ write_lock' = TRUE
    /\ tx' = [tx EXCEPT ![t] = NewTx(TRUE, get_current_serial)]
    /\ conn' = [conn EXCEPT ![t] = get_connection]
    /\ UNCHANGED << storevars, notivars, up, next_serial, fsw, ret, commits, pc >>

\* KeyFS.begin_transaction_in_thread(write=True) when the storage cannot open
\* a connection: Transaction.__init__ has acquired the mutex, get_connection
\* raises, no transaction is bound
BeginWriteConnFails(t) ==
    /\ up /\ pc[t] = "idle"
    /\ ~readonly
    /\ LockFree
    /\ write_lock' = TRUE
    /\ ret' = [ret EXCEPT ![t] = ConnError]
    /\ UNCHANGED << storevars, notivars, up, next_serial, pc, tx, conn, fsw,
                    commits >>

\* KeyFS.restart_as_write_transaction when the storage cannot open a
\* connection: the read transaction is closed by commit(), the new
\* Transaction acquires the mutex, get_connection raises; the closed
\* transaction stays bound to the thread
RestartAsWriteConnFails(t) ==
    /\ up /\ pc[t] = "open" /\ ~tx[t].write
    /\ ~readonly
    /\ LockFree
    /\ write_lock' = TRUE
    /\ conn' = [conn EXCEPT ![t] = NoConn]
    /\ tx' = [tx EXCEPT ![t] = NoTx]
    /\ pc' = [pc EXCEPT ![t] = "stale"]
    /\ ret' = [ret EXCEPT ![t] = ConnError]
    /\ UNCHANGED << storevars, notivars, up, next_serial, fsw, commits >>

\* KeyFS.import_changes when the storage cannot open a connection: the
\* exception leaves the scope of the mutex, which releases it
ImportConnFails(t) ==
    /\ up /\ pc[t] = "idle"
    /\ LockFree
    /\ ret' = [ret EXCEPT ![t] = ConnError]
    /\ UNCHANGED << storevars, notivars, up, next_serial, write_lock, pc, tx, conn,
                    fsw, commits >>

\* KeyFS.begin_transaction_in_thread(write=True) on a read-only engine:
\* raise ReadOnly, before a Transaction is made
BeginWriteReadOnly(t) ==
    /\ up /\ pc[t] = "idle"
    /\ readonly
    /\ ret' = [ret EXCEPT ![t] = ReadOnly]
    /\ UNCHANGED << storevars, notivars, up, next_serial, write_lock, pc, tx, conn,
                    fsw, commits >>

\* KeyFS.restart_as_write_transaction on a read-only engine: raise ReadOnly
RestartAsWriteReadOnly(t) ==
    /\ up /\ pc[t] = "open" /\ ~tx[t].write
    /\ readonly
    /\ ret' = [ret EXCEPT ![t] = ReadOnly]
    /\ UNCHANGED << storevars, notivars, up, next_serial, write_lock, pc, tx, conn,
                    fsw, commits >>

\* Transaction.set / Transaction.delete on a read transaction: raise ReadOnly
WriteOnRead(t) ==
    /\ up /\ pc[t] = "open" /\ ~tx[t].write
    /\ ret' = [ret EXCEPT ![t] = ReadOnly]
    /\ UNCHANGED << storevars, notivars, up, next_serial, write_lock, pc, tx, conn,
                    fsw, commits >>

\* Transaction.get: a value read from the store is kept in the cache
GetBody(t, typedkey) ==
    /\ up /\ pc[t] = "open"
    /\ tx_get(t, typedkey).val # AssertionError
    /\ tx' = [tx EXCEPT ![t].cache = tx_get(t, typedkey).cache]
    /\ UNCHANGED << storevars, notivars, up, next_serial, write_lock, pc, conn, fsw,
                    commits >>

\* TypedKey.get
Get(t, typedkey) == GetBody(t, typedkey) /\ UNCHANGED ret

\* Transaction.set on a write transaction
Set(t, typedkey, val) ==
    /\ up /\ pc[t] = "open" /\ tx[t].write
    /\ tx' = [tx EXCEPT ![t].cache = Override(@, [k \in {typedkey} |-> val]),
                        ![t].dirty = @ \cup {typedkey}]
    /\ UNCHANGED << storevars, notivars, up, next_serial, write_lock, pc, conn, fsw,
                    ret, commits >>

\* a delete that stores the empty value of the key's type
DeleteAsEmpty(t, typedkey) ==
    /\ up /\ pc[t] = "open" /\ tx[t].write
    /\ tx' = [tx EXCEPT ![t].cache = Override(@, [k \in {typedkey} |-> EmptyVal]),
                        ![t].dirty = @ \cup {typedkey}]
    /\ UNCHANGED << storevars, notivars, up, next_serial, write_lock, pc, conn, fsw,
                    ret, commits >>

\* Transaction.delete on a write transaction
Delete(t, typedkey) ==
    /\ up /\ pc[t] = "open" /\ tx[t].write
    /\ tx' = [tx EXCEPT ![t].cache = Without(@, typedkey),
                        ![t].dirty = @ \cup {typedkey}]
    /\ UNCHANGED << storevars, notivars, up, next_serial, write_lock, pc, conn, fsw,
                    ret, commits >>

\* the application stages a side file in the transaction's connection:
\* conn.dirty_files[path] = content (None: delete the file at commit)
StageFile(t, path, content) ==
    /\ up /\ pc[t] = "open" /\ tx[t].write
    /\ path \notin DOMAIN conn[t].dirty_files
    /\ conn' = [conn EXCEPT ![t].dirty_files = Override(@, [p \in {path} |-> content])]
    /\ UNCHANGED << storevars, notivars, up, next_serial, write_lock, pc, tx, fsw,
                    ret, commits >>

\* KeyFS.rollback_transaction_in_thread
Rollback(t) ==
    /\ up /\ pc[t] = "open"
    /\ Close(t)
    /\ UNCHANGED << storevars, notivars, up, next_serial, ret, commits >>

\* ---------------------------------------------------------------- FSWriter
\* FSWriter.db_get_typedkey_value: the row's last_serial, -1 without a row
db_get_typedkey_value(c, relpath) ==
    IF db_read_typedkey(c, relpath) = KeyError THEN -1
    ELSE db_read_typedkey(c, relpath)

\* record_set that takes every key for a new one
record_set_no_back(c, typedkey, value) ==
    [back_serial |-> -1, val |-> value]

\* FSWriter.record_set: the change recorded for typedkey
record_set(c, typedkey, value) ==
    [back_serial |-> db_get_typedkey_value(c, typedkey), val |-> value]

\* FSWriter.db_set_typedkey_value, for every key of ks
db_set_typedkey_value(c, ks, serial) ==
    [c EXCEPT !.idx_writes = Override(@, [k \in ks |-> serial])]

\* Transaction.commit has nothing to write: a read transaction, or a write
\* transaction with nothing dirty
NothingToCommit(t) ==
    ~tx[t].write \/ (tx[t].dirty = {} /\ DOMAIN conn[t].dirty_files = {})

\* a commit with nothing to write that keeps the write mutex
CommitEmptyKeepLock(t) ==
    /\ up /\ pc[t] = "open"
    /\ NothingToCommit(t)
    /\ conn' = [conn EXCEPT ![t] = NoConn]
    /\ tx' = [tx EXCEPT ![t] = NoTx]
    /\ fsw' = [fsw EXCEPT ![t] = NoFsw]
    /\ pc' = [pc EXCEPT ![t] = "idle"]
    /\ ret' = [ret EXCEPT ![t] = tx[t].at_serial]
    /\ UNCHANGED << storevars, notivars, up, next_serial, write_lock, commits >>

\* Transaction.commit with nothing to write: _close() and return at_serial
CommitEmpty(t) ==
    /\ up /\ pc[t] = "open"
    /\ NothingToCommit(t)
    /\ Close(t)
    /\ commits' = IF tx[t].write
                  THEN Append(commits, [thread |-> t, serial |-> tx[t].at_serial,
                                        wrote |-> FALSE, written_at |-> -1,
                                        import |-> FALSE])
                  ELSE commits
    /\ ret' = [ret EXCEPT ![t] = tx[t].at_serial]
    /\ UNCHANGED << storevars, notivars, up, next_serial >>

\* Transaction.commit up to the end of the body of its FSWriter scope
CommitStart(t) ==
    /\ up /\ pc[t] = "open"
    /\ ~NothingToCommit(t)
    /\ fsw' = [fsw EXCEPT ![t] =
         [NoFsw EXCEPT
            !.changes = [k \in tx[t].dirty |->
                record_set(conn[t], k,
                    IF k \in DOMAIN tx[t].cache THEN tx[t].cache[k] ELSE None)],
            !.commit_serial = next_serial]]
    /\ conn' = [conn EXCEPT ![t] =
                  db_set_typedkey_value(@, tx[t].dirty, next_serial)]
    /\ pc' = [pc EXCEPT ![t] = "exit"]
    /\ UNCHANGED << storevars, notivars, up, next_serial, write_lock, tx, ret,
                    commits >>

\* paths of conn.dirty_files that FSWriter.__exit__ has not turned into a
\* pending rename yet
Undrained(t) ==
    { p \in DOMAIN conn[t].dirty_files :
        \A j \in 1 .. Len(fsw[t].pending_renames) : fsw[t].pending_renames[j].path # p }

\* staging that writes the content to the path itself
ExitStageFileInPlace(t) ==
    /\ up /\ pc[t] = "exit"
    /\ \E p \in Undrained(t) :
         LET content == conn[t].dirty_files[p]
         IN  /\ fsw' = [fsw EXCEPT ![t].pending_renames =
                          Append(@, [path |-> p, tmp |-> content # None])]
             /\ tmpfiles' = IF content = None THEN tmpfiles
                            ELSE [tmpfiles EXCEPT ![p] = content]
             /\ files' = IF content = None THEN files
                         ELSE [files EXCEPT ![p] = content]
    /\ UNCHANGED << confvars, changelog, index, state_after, fs_done, crashed_in,
                    notivars, up, next_serial, write_lock, pc, tx, conn, ret, commits >>

\* FSWriter.__exit__, one turn of its loop over conn.dirty_files; the loop
\* runs whether the scope is left normally or by an exception
ExitStageFile(t) ==
    /\ up /\ pc[t] \in {"exit", "exit_err"}
    /\ \E p \in Undrained(t) :
         LET content == conn[t].dirty_files[p]
         IN  /\ fsw' = [fsw EXCEPT ![t].pending_renames =
                          Append(@, [path |-> p, tmp |-> content # None])]
             /\ tmpfiles' = IF content = None THEN tmpfiles
                            ELSE [tmpfiles EXCEPT ![p] = content]
    /\ UNCHANGED << confvars, changelog, index, files, state_after, fs_done, crashed_in,
                    notivars, up, next_serial, write_lock, pc, tx, conn, ret, commits >>

\* Transaction.commit: an exception inside the FSWriter scope, raised by the
\* record_set that follows those for the keys in done
CommitBodyRaises(t, done) ==
    /\ up /\ pc[t] = "open"
    /\ ~NothingToCommit(t)
    /\ done \subseteq tx[t].dirty /\ done # tx[t].dirty
    /\ fsw' = [fsw EXCEPT ![t] =
         [NoFsw EXCEPT
            !.changes = [k \in done |->
                record_set(conn[t], k,
                    IF k \in DOMAIN tx[t].cache THEN tx[t].cache[k] ELSE None)],
            !.commit_serial = next_serial]]
    /\ conn' = [conn EXCEPT ![t] = db_set_typedkey_value(@, done, next_serial)]
    /\ pc' = [pc EXCEPT ![t] = "exit_err"]
    /\ UNCHANGED << storevars, notivars, up, next_serial, write_lock, tx, ret,
                    commits >>

\* an exit with an exception that leaves the staged files where they are
ExitRollbackKeep(t) ==
    /\ up /\ pc[t] = "exit_err" /\ Undrained(t) = {}
    /\ fsw' = [fsw EXCEPT ![t].pending_renames = << >>]
    /\ pc' = [pc EXCEPT ![t] = "failed"]
    /\ UNCHANGED << storevars, notivars, up, next_serial, write_lock, tx, conn, ret,
                    commits >>

\* FSWriter.__exit__ with an exception: the pending renames are popped and
\* every staged source is removed
ExitRollback(t) ==
    /\ up /\ pc[t] = "exit_err" /\ Undrained(t) = {}
    /\ tmpfiles' = [p \in Paths |->
          IF \E j \in 1 .. Len(fsw[t].pending_renames) :
                fsw[t].pending_renames[j].path = p /\ fsw[t].pending_renames[j].tmp
          THEN 0 ELSE tmpfiles[p]]
    /\ fsw' = [fsw EXCEPT ![t].pending_renames = << >>]
    /\ pc' = [pc EXCEPT ![t] = "failed"]
    /\ UNCHANGED << confvars, changelog, index, files, state_after, fs_done, crashed_in,
                    notivars, up, next_serial, write_lock, tx, conn, ret, commits >>

\* FSWriter.commit_to_filesystem: conn.write_changelog_entry raises and has
\* written nothing; the exception leaves FSWriter.__exit__
WriteChangelogRaises(t) ==
    /\ up /\ pc[t] = "exit" /\ Undrained(t) = {}
    /\ pc' = [pc EXCEPT ![t] = "failed"]
    /\ UNCHANGED << storevars, notivars, up, next_serial, write_lock, tx, conn, fsw,
                    ret, commits >>

\* a failed commit whose connection publishes its index rows when it closes
CommitFailClosePublish(t) ==
    /\ up /\ pc[t] = "failed"
    /\ write_lock' = FALSE
    /\ index' = Override(index, conn[t].idx_writes)
    /\ conn' = [conn EXCEPT ![t] = NoConn]
    /\ tx' = [tx EXCEPT ![t] = NoTx]
    /\ fsw' = [fsw EXCEPT ![t] = NoFsw]
    /\ pc' = [pc EXCEPT ![t] = IF fsw[t].import THEN "idle" ELSE "stale"]
    /\ UNCHANGED << confvars, changelog, files, tmpfiles, state_after, fs_done,
                    crashed_in, notivars, up, next_serial, ret, commits >>

\* Transaction.commit: finally _close(), the exception goes on through
\* commit_transaction_in_thread, which does not reach clear_transaction;
\* KeyFS.import_changes: the scopes are left, there is no transaction to clear
CommitFailClose(t) ==
    /\ up /\ pc[t] = "failed"
    /\ write_lock' = FALSE
    /\ conn' = [conn EXCEPT ![t] = NoConn]
    /\ tx' = [tx EXCEPT ![t] = NoTx]
    /\ fsw' = [fsw EXCEPT ![t] = NoFsw]
    /\ pc' = [pc EXCEPT ![t] = IF fsw[t].import THEN "idle" ELSE "stale"]
    /\ UNCHANGED << storevars, notivars, up, next_serial, ret, commits >>

\* KeyFS.begin_transaction_in_thread on a thread whose closed transaction is
\* still bound: assert not hasattr(self._threadlocal, "tx")
BeginInStale(t) ==
    /\ up /\ pc[t] = "stale"
    /\ ret' = [ret EXCEPT ![t] = AssertionError]
    /\ UNCHANGED << storevars, notivars, up, next_serial, write_lock, pc, tx, conn,
                    fsw, commits >>

\* rename(path-tmp, path) / os.remove(path) on the side files
DoRename(fs, path) ==
    [fs EXCEPT !.files = [fs.files EXCEPT ![path] = fs.tmpfiles[path]],
               !.tmpfiles = [fs.tmpfiles EXCEPT ![path] = 0]]

DoRemove(fs, path) ==
    [fs EXCEPT !.files = [fs.files EXCEPT ![path] = 0]]

\* commit_renames, one turn of its loop, on the side files fs
CommitEntry(fs, e) == IF e.tmp THEN DoRename(fs, e.path) ELSE DoRemove(fs, e.path)

\* commit_renames on the entries i .. Len(rel_renames)
RECURSIVE commit_renames(_, _, _)
commit_renames(fs, rel_renames, i) ==
    IF i > Len(rel_renames) THEN fs
    ELSE commit_renames(CommitEntry(fs, rel_renames[i]), rel_renames, i + 1)

FsNow == [files |-> files, tmpfiles |-> tmpfiles, ok |-> TRUE]

\* make_rel_renames
make_rel_renames(pending_renames) == pending_renames

\* the values every key holds once changes are applied to the values before
ApplyChanges(before, changes) ==
    [k \in Keys |-> IF k \in DOMAIN changes THEN changes[k].val ELSE before[k]]

LastState ==
    IF Len(state_after) = 0 THEN [k \in Keys |-> None]
    ELSE state_after[Len(state_after)]

\* FSWriter.commit_to_filesystem up to conn.write_changelog_entry: the entry
\* and the index rows the connection staged become durable together
WriteChangelog(t) ==
    /\ up /\ pc[t] = "exit" /\ Undrained(t) = {}
    /\ next_serial = Len(changelog)
    /\ LET rel_renames == make_rel_renames(fsw[t].pending_renames)
       IN  /\ changelog' = Append(changelog,
                               [changes |-> fsw[t].changes, rel_renames |-> rel_renames])
           /\ fsw' = [fsw EXCEPT ![t].rel_renames = rel_renames, ![t].i = 1,
                                  ![t].written_at = Len(changelog)]
           /\ fs_done' = commit_renames(FsNow, rel_renames, 1)
    /\ index' = Override(index, conn[t].idx_writes)
    /\ state_after' = Append(state_after, ApplyChanges(LastState, fsw[t].changes))
    /\ pc' = [pc EXCEPT ![t] = "renames"]
    /\ UNCHANGED << confvars, files, tmpfiles, crashed_in, notivars, up, next_serial,
                    write_lock, tx, conn, ret, commits >>

\* commit_renames, one turn of its loop
CommitRenameStep(t) ==
    /\ up /\ pc[t] = "renames" /\ fsw[t].i <= Len(fsw[t].rel_renames)
    /\ LET e == fsw[t].rel_renames[fsw[t].i]
           after == CommitEntry(FsNow, e)
       IN  /\ e.tmp => tmpfiles[e.path] # 0
           /\ files' = after.files
           /\ tmpfiles' = after.tmpfiles
    /\ fsw' = [fsw EXCEPT ![t].i = @ + 1]
    /\ UNCHANGED << confvars, changelog, index, state_after, fs_done, crashed_in, notivars, up,
                    next_serial, write_lock, pc, tx, conn, ret, commits >>

\* a commit that forgets to count
IncrSerialNot(t) ==
    /\ up /\ pc[t] = "renames" /\ fsw[t].i > Len(fsw[t].rel_renames)
    /\ pc' = [pc EXCEPT ![t] = "notify"]
    /\ UNCHANGED << storevars, notivars, up, next_serial, write_lock, tx, conn, fsw,
                    ret, commits >>

\* FSWriter.commit_to_filesystem: storage.next_serial += 1
\* commit_renames: rename(path, path[:-4]) raises; the exception leaves
\* commit_to_filesystem before next_serial += 1 and FSWriter.__exit__ before
\* the notification
CommitRenameRaises(t) ==
    /\ up /\ pc[t] = "renames" /\ fsw[t].i <= Len(fsw[t].rel_renames)
    /\ fsw[t].rel_renames[fsw[t].i].tmp
    /\ pc' = [pc EXCEPT ![t] = "failed"]
    /\ UNCHANGED << storevars, notivars, up, next_serial, write_lock, tx, conn, fsw,
                    ret, commits >>

IncrSerial(t) ==
    /\ up /\ pc[t] = "renames" /\ fsw[t].i > Len(fsw[t].rel_renames)
    /\ next_serial' = next_serial + 1
    /\ pc' = [pc EXCEPT ![t] = "notify"]
    /\ UNCHANGED << storevars, notivars, up, write_lock, tx, conn, fsw, ret, commits >>

\* TxNotificationThread.notify_on_commit: cv_new_transaction.notify_all()
notify_all_tx ==
    /\ cv_tx' = {}
    /\ npc' = IF npc = "waiting" THEN "woken" ELSE npc

\* FSWriter.__exit__: storage._notify_on_commit(commit_serial)
NotifyOnCommit(t) ==
    /\ up /\ pc[t] = "notify"
    /\ notify_all_tx
    /\ pc' = [pc EXCEPT ![t] = "close"]
    /\ UNCHANGED << storevars, up, next_serial, write_lock, tx, conn, fsw, ret,
                    commits, event_serial, shutdown, wpc, wserial, evfile, fired,
                    runfired >>

\* Transaction.commit: finally _close(), then return commit_serial;
\* KeyFS.import_changes: leave the connection and the write lock
CommitClose(t) ==
    /\ up /\ pc[t] = "close"
    /\ write_lock' = FALSE
    /\ conn' = [conn EXCEPT ![t] = NoConn]
    /\ tx' = [tx EXCEPT ![t] = NoTx]
    /\ fsw' = [fsw EXCEPT ![t] = NoFsw]
    /\ pc' = [pc EXCEPT ![t] = "idle"]
    /\ commits' = Append(commits, [thread |-> t, serial |-> fsw[t].commit_serial,
                                   wrote |-> TRUE, written_at |-> fsw[t].written_at,
                                   import |-> fsw[t].import])
    /\ UNCHANGED << storevars, notivars, up, next_serial, ret >>


\* ---------------------------------------------------------- import_changes
\* the batches an importer supplies: some keys, each set to a value or deleted
ImportBatches ==
    UNION { [ks -> Values \cup {None}] : ks \in (SUBSET Keys) \ {{}} }

\* an import that records the changes and leaves the primary index alone
ImportChangesNoIndex(t, serial, changes) ==
    /\ up /\ pc[t] = "idle"
    /\ LockFree
    /\ get_next_serial = serial
    /\ write_lock' = TRUE
    /\ fsw' = [fsw EXCEPT ![t] =
         [NoFsw EXCEPT
            !.changes = [k \in DOMAIN changes |->
                           record_set(get_connection, k, changes[k])],
            !.commit_serial = next_serial,
            !.import = TRUE]]
    /\ conn' = [conn EXCEPT ![t] = get_connection]
    /\ pc' = [pc EXCEPT ![t] = "exit"]
    /\ UNCHANGED << storevars, notivars, up, next_serial, tx, ret, commits >>

\* KeyFS.import_changes(serial, changes) up to the end of the body of its
\* FSWriter scope; with serial # next_serial the assertion fails and the
\* scopes are left again with nothing changed
ImportChanges(t, serial, changes) ==
    /\ up /\ pc[t] = "idle"
    /\ LockFree
    /\ IF get_next_serial # serial
       THEN UNCHANGED vars
       ELSE /\ write_lock' = TRUE
            /\ fsw' = [fsw EXCEPT ![t] =
                 [NoFsw EXCEPT
                    !.changes = [k \in DOMAIN changes |->
                                   record_set(get_connection, k, changes[k])],
                    !.commit_serial = next_serial,
                    !.import = TRUE]]
            /\ conn' = [conn EXCEPT ![t] =
                 db_set_typedkey_value(get_connection, DOMAIN changes, next_serial)]
            /\ pc' = [pc EXCEPT ![t] = "exit"]
            /\ UNCHANGED << storevars, notivars, up, next_serial, tx, ret, commits >>

\* KeyFS.import_changes(serial, changes) with serial = next_serial: the import
\* subscriber of a key raises, after record_set for the keys in done (that
\* key among them); staged tells whether a subscriber has staged side file
\* f1 through the writer's connection before
ImportChangesRaises(t, changes, done, staged) ==
    /\ up /\ pc[t] = "idle"
    /\ LockFree
    /\ done \subseteq DOMAIN changes /\ done # {}
    /\ write_lock' = TRUE
    /\ fsw' = [fsw EXCEPT ![t] =
         [NoFsw EXCEPT
            !.changes = [k \in done |-> record_set(get_connection, k, changes[k])],
            !.commit_serial = next_serial,
            !.import = TRUE]]
    /\ conn' = [conn EXCEPT ![t] =
         [db_set_typedkey_value(get_connection, done, next_serial)
            EXCEPT !.dirty_files = IF staged THEN [p \in {"f1"} |-> 1] ELSE EmptyMap]]
    /\ pc' = [pc EXCEPT ![t] = "exit_err"]
    /\ UNCHANGED << storevars, notivars, up, next_serial, tx, ret, commits >>

\* the changes map of the master's entry at serial, as a replica hands it to
\* import_changes: relpath -> value (name and back_serial are not used)
MasterChanges(serial) ==
    LET changes == master[1].changelog[serial + 1].changes
    IN  [k \in DOMAIN changes |-> changes[k].val]

\* the engine's changelog is exported, and an engine on an empty basedir takes
\* its place: from here on the state is the replica's
ExportToReplica ==
    /\ up /\ Len(master) = 0
    /\ \A t \in Threads : pc[t] = "idle"
    /\ Len(changelog) > 0
    /\ master' = << [changelog |-> changelog, index |-> index,
                     next_serial |-> next_serial,
                     values |-> [k \in Keys |-> [s \in -1 .. MaxSerial |->
                                   get_value_at(k, s, get_connection)]]] >>
    /\ changelog' = << >>
    /\ index' = EmptyMap
    /\ next_serial' = 0
    /\ state_after' = << >>
    /\ commits' = << >>
    /\ UNCHANGED << files, tmpfiles, fs_done, crashed_in, readonly, pcall, called, notivars,
                    up, write_lock, pc, tx, conn, fsw, ret >>

\* ----------------------------------------------------------- crash recovery
\* a replay that takes every rename for done
RecoverEntryNoRename(fs, e) ==
    IF e.tmp
    THEN IF fs.files[e.path] # 0 THEN fs ELSE [fs EXCEPT !.ok = FALSE]
    ELSE DoRemove(fs, e.path)

\* check_pending_renames, one turn of its loop; ok = FALSE: the assertion
\* that the renamed file exists failed
RecoverEntry(fs, e) ==
    IF e.tmp
    THEN IF fs.tmpfiles[e.path] # 0 THEN DoRename(fs, e.path)
         ELSE IF fs.files[e.path] # 0 THEN fs
              ELSE [fs EXCEPT !.ok = FALSE]
    ELSE DoRemove(fs, e.path)

\* check_pending_renames on the entries i .. n of pending_relnames
RECURSIVE check_pending_renames(_, _, _, _)
check_pending_renames(fs, pending_relnames, i, n) ==
    IF i > n \/ ~fs.ok THEN fs
    ELSE check_pending_renames(RecoverEntry(fs, pending_relnames[i]),
                               pending_relnames, i + 1, n)

\* the rel_renames of the entry KeyFS.__init__ loads: that at current_serial
LastRenames ==
    IF Len(changelog) = 0 THEN << >> ELSE changelog[Len(changelog)].rel_renames

Recovered == check_pending_renames(FsNow, LastRenames, 1, Len(LastRenames))

\* the process dies: everything in memory is gone, the store stays
Crash ==
    /\ up
    /\ up' = FALSE
    /\ next_serial' = 0
    /\ write_lock' = FALSE
    /\ pc' = [t \in Threads |-> "idle"]
    /\ tx' = [t \in Threads |-> NoTx]
    /\ conn' = [t \in Threads |-> NoConn]
    /\ fsw' = [t \in Threads |-> NoFsw]
    /\ ret' = [t \in Threads |-> NoRet]
    /\ npc' = "off"
    /\ event_serial' = -1
    /\ shutdown' = "no"
    /\ cv_tx' = {}
    /\ wpc' = "idle"
    /\ wserial' = -1
    /\ runfired' = 0
    /\ crashed_in' =
         IF \E t \in Threads : pc[t] \in {"renames", "notify", "close"}
         THEN [phase |-> "commit",
               serial |-> fsw[CHOOSE t \in Threads :
                                pc[t] \in {"renames", "notify", "close"}].commit_serial]
         ELSE IF \E t \in Threads : pc[t] = "exit"
              THEN [phase |-> "exit", serial |-> -1]
              ELSE [phase |-> "other", serial |-> -1]
    /\ UNCHANGED << confvars, changelog, index, files, tmpfiles, state_after, fs_done, evfile,
                    commits, fired >>

\* KeyFS.__init__: next_serial from the last entry of the changelog, then the
\* replay of its rel_renames
Restart ==
    /\ ~up
    /\ Recovered.ok
    /\ up' = TRUE
    /\ next_serial' = Len(changelog)
    /\ files' = Recovered.files
    /\ tmpfiles' = Recovered.tmpfiles
    /\ UNCHANGED << confvars, changelog, index, state_after, fs_done, crashed_in, notivars,
                    write_lock, pc, tx, conn, fsw, ret, commits >>

\* KeyFS.__init__ dies inside check_pending_renames, after n of its turns
CrashInRestart ==
    /\ ~up
    /\ \E n \in 0 .. Len(LastRenames) - 1 :
         LET part == check_pending_renames(FsNow, LastRenames, 1, n)
         IN  /\ part.ok
             /\ files' = part.files
             /\ tmpfiles' = part.tmpfiles
             /\ << files', tmpfiles' >> # << files, tmpfiles >>
    /\ UNCHANGED << confvars, changelog, index, state_after, fs_done, crashed_in, notivars, up,
                    next_serial, write_lock, pc, tx, conn, fsw, ret, commits >>

\* ------------------------------------------------------------ the notifier
\* read_int_from_file
read_int_from_file(content, default) ==
    IF content = Missing THEN default ELSE content

\* TxNotificationThread.read_event_serial
read_event_serial == read_int_from_file(evfile, 0) - 1

\* a cursor file that holds the serial itself
write_event_serial_plain(serial) == serial

\* TxNotificationThread.write_event_serial: the integer written to the file
write_event_serial(serial) == serial + 1

\* the notifier thread is started: thread_run reads its cursor
ThreadRunStart ==
    /\ up /\ npc = "off" /\ shutdown = "no"
    /\ event_serial' = read_event_serial
    /\ npc' = "run"
    /\ UNCHANGED << storevars, up, next_serial, write_lock, pc, tx, conn, fsw, ret,
                    commits, shutdown, cv_tx, wpc, wserial, evfile, fired, runfired >>

\* the subscribers registered for the keys' name, in the order of registration
Subscribers == << "sub1", "sub2" >>

\* the order in which changes.items() gives the relpaths
KeyOrder == << "k1", "k2" >>

\* the subscriber calls that raise: pairs of relpath and subscriber
HookPairs == Keys \X {"sub1", "sub2"}

NoRaisers == {}

\* _execute_hooks: the calls sub(ev) for the changes of a serial, relpath by
\* relpath and subscriber by subscriber
Invocations(serial, raisers) ==
    LET InChanges(k) == k \in DOMAIN get_changes(serial)
        ks == SelectSeq(KeyOrder, InChanges)
        n == Len(Subscribers)
    IN  [i \in 1 .. Len(ks) * n |->
            [serial |-> serial,
             relpath |-> ks[((i - 1) \div n) + 1],
             sub |-> Subscribers[((i - 1) % n) + 1],
             raised |-> << ks[((i - 1) \div n) + 1],
                           Subscribers[((i - 1) % n) + 1] >> \in raisers]]

\* _execute_hooks(raising=True): the first exception of a subscriber leaves
\* the loops
execute_hooks_raising(serial, raisers) ==
    LET inv == Invocations(serial, raisers)
        bad == { i \in DOMAIN inv : inv[i].raised }
    IN  IF bad = {} THEN [calls |-> inv, raised |-> FALSE]
        ELSE [calls |-> SubSeq(inv, 1, CHOOSE i \in bad : \A j \in bad : i <= j),
              raised |-> TRUE]

\* _execute_hooks as thread_run calls it (raising=False): an exception of a
\* subscriber is logged and the loops go on
execute_hooks(serial, raisers) ==
    [calls |-> Invocations(serial, raisers), raised |-> FALSE]

\* thread_run, inner loop: exit_if_shutdown, event_serial += 1, _execute_hooks;
\* an exception that leaves _execute_hooks ends the thread
Dispatch(raisers) ==
    /\ up /\ npc = "run"
    /\ event_serial < get_current_serial
    /\ IF shutdown # "no"
       THEN /\ npc' = "exited"
            /\ UNCHANGED << event_serial, fired, runfired, called >>
       ELSE LET hooks == execute_hooks(event_serial + 1, raisers)
            IN  /\ event_serial' = event_serial + 1
                /\ called' = called \o hooks.calls
                /\ IF hooks.raised
                   THEN /\ npc' = "died"
                        /\ UNCHANGED << fired, runfired >>
                   ELSE /\ fired' = Append(fired, event_serial + 1)
                        /\ runfired' = runfired + 1
                        /\ npc' = "write"
    /\ UNCHANGED << changelog, index, files, tmpfiles, state_after, fs_done,
                    crashed_in, readonly, master, pcall, up, next_serial,
                    write_lock, pc, tx, conn, fsw, ret, commits, shutdown, cv_tx,
                    wpc, wserial, evfile >>

\* thread_run, inner loop: write_event_serial and cv_new_event_serial.notify_all
WriteEventSerial ==
    /\ up /\ npc = "write"
    /\ evfile' = write_event_serial(event_serial)
    /\ wpc' = IF wpc = "waiting" THEN "woken" ELSE wpc
    /\ npc' = "run"
    /\ UNCHANGED << storevars, up, next_serial, write_lock, pc, tx, conn, fsw, ret,
                    commits, shutdown, cv_tx, wserial, event_serial, fired, runfired >>

\* thread_run: the inner loop's condition is false
LeaveInnerLoop ==
    /\ up /\ npc = "run"
    /\ ~(event_serial < get_current_serial)
    /\ npc' = "check"
    /\ UNCHANGED << storevars, up, next_serial, write_lock, pc, tx, conn, fsw, ret,
                    commits, shutdown, cv_tx, wpc, wserial, evfile, event_serial,
                    fired, runfired >>

\* thread_run: serial = get_current_serial(); if event_serial >= serial
CaughtUpCheck ==
    /\ up /\ npc = "check"
    /\ npc' = IF event_serial >= get_current_serial THEN "prewait" ELSE "run"
    /\ UNCHANGED << storevars, up, next_serial, write_lock, pc, tx, conn, fsw, ret,
                    commits, shutdown, cv_tx, wpc, wserial, evfile, event_serial,
                    fired, runfired >>

\* thread_run: with cv_new_transaction: cv_new_transaction.wait()
WaitNewTransaction ==
    /\ up /\ npc = "prewait"
    /\ npc' = "waiting"
    /\ cv_tx' = cv_tx \cup {"notifier"}
    /\ UNCHANGED << storevars, up, next_serial, write_lock, pc, tx, conn, fsw, ret,
                    commits, shutdown, wpc, wserial, evfile, event_serial, fired,
                    runfired >>

\* thread_run: woken from the wait, exit_if_shutdown
Woken ==
    /\ up /\ npc = "woken"
    /\ npc' = IF shutdown # "no" THEN "exited" ELSE "run"
    /\ UNCHANGED << storevars, up, next_serial, write_lock, pc, tx, conn, fsw, ret,
                    commits, shutdown, cv_tx, wpc, wserial, evfile, event_serial,
                    fired, runfired >>

\* the thread pool asks the notifier to stop: the shutdown flag is set
SetShutdown ==
    /\ up /\ npc # "off" /\ shutdown = "no"
    /\ shutdown' = "set"
    /\ UNCHANGED << storevars, up, next_serial, write_lock, pc, tx, conn, fsw, ret,
                    commits, npc, cv_tx, wpc, wserial, evfile, event_serial, fired,
                    runfired >>

\* TxNotificationThread.thread_shutdown
ThreadShutdown ==
    /\ up /\ shutdown = "set"
    /\ shutdown' = "signalled"
    /\ notify_all_tx
    /\ UNCHANGED << storevars, up, next_serial, write_lock, pc, tx, conn, fsw, ret,
                    commits, wpc, wserial, evfile, event_serial, fired, runfired >>

\* TxNotificationThread.wait_event_serial(serial): the test and the wait are
\* made while holding cv_new_event_serial
WaitEventSerial(serial) ==
    /\ up /\ wpc = "idle"
    /\ wserial' = serial
    /\ wpc' = IF serial > read_event_serial THEN "waiting" ELSE "returned"
    /\ UNCHANGED << storevars, up, next_serial, write_lock, pc, tx, conn, fsw, ret,
                    commits, npc, shutdown, cv_tx, evfile, event_serial, fired,
                    runfired >>

\* wait_event_serial: woken from cv_new_event_serial.wait(), test again
WaitEventSerialWoken ==
    /\ up /\ wpc = "woken"
    /\ wpc' = IF wserial > read_event_serial THEN "waiting" ELSE "returned"
    /\ UNCHANGED << storevars, up, next_serial, write_lock, pc, tx, conn, fsw, ret,
                    commits, npc, shutdown, cv_tx, wserial, evfile, event_serial,
                    fired, runfired >>

\* TxNotificationThread.wait_tx_serial(serial): the test and the wait are made
\* while holding cv_new_transaction
WaitTxSerial(serial) ==
    /\ up /\ wpc = "idle"
    /\ wserial' = serial
    /\ wpc' = IF serial > get_current_serial THEN "waiting_tx" ELSE "returned"
    /\ cv_tx' = IF serial > get_current_serial THEN cv_tx \cup {"waiter"} ELSE cv_tx
    /\ UNCHANGED << storevars, up, next_serial, write_lock, pc, tx, conn, fsw, ret,
                    commits, npc, shutdown, evfile, event_serial, fired, runfired >>

\* wait_tx_serial: woken from cv_new_transaction.wait() by a notify_all, the
\* loop tests the serial again and waits again or returns
WaitTxSerialWoken ==
    /\ up /\ wpc = "waiting_tx" /\ "waiter" \notin cv_tx
    /\ wpc' = IF wserial > get_current_serial THEN "waiting_tx" ELSE "returned"
    /\ cv_tx' = IF wserial > get_current_serial THEN cv_tx \cup {"waiter"} ELSE cv_tx
    /\ UNCHANGED << storevars, up, next_serial, write_lock, pc, tx, conn, fsw, ret,
                    commits, npc, shutdown, wserial, evfile, event_serial, fired,
                    runfired >>

\* ------------------------------------------------------------- PTypedKey
\* Strings are sequences of characters.
Chars == {"a", "+", "/"}

MaxParamLen == 2

ParamValues == UNION { [1 .. n -> Chars] : n \in 0 .. MaxParamLen }

\* a character of a pattern, and a {name} placeholder
Lit(c) == [ph |-> FALSE, s |-> c]

Placeholder(name) == [ph |-> TRUE, s |-> name]

\* the patterns registered: "a/{u}", "{u}/a+", "{u}/{v}", "a/{u}/a"
Patterns ==
    { << Lit("a"), Lit("/"), Placeholder("u") >>,
      << Placeholder("u"), Lit("/"), Lit("a"), Lit("+") >>,
      << Placeholder("u"), Lit("/"), Placeholder("v") >>,
      << Lit("a"), Lit("/"), Placeholder("u"), Lit("/"), Lit("a") >> }

PlaceholderNames(pattern) == { pattern[i].s : i \in { j \in DOMAIN pattern : pattern[j].ph } }

\* PTypedKey.__init__: "+" is escaped and every {name} becomes the group
\* (?P<name>[^\/]+); each element of the regex is a literal character or a group
rex_reverse(pattern) ==
    [i \in DOMAIN pattern |->
        IF pattern[i].ph THEN [kind |-> "group", s |-> pattern[i].s]
                         ELSE [kind |-> "literal", s |-> pattern[i].s]]

\* str.format(**kw) on the pattern
RECURSIVE format(_, _)
format(pattern, kw) ==
    IF pattern = << >> THEN << >>
    ELSE (IF Head(pattern).ph THEN kw[Head(pattern).s] ELSE << Head(pattern).s >>)
         \o format(Tail(pattern), kw)

\* the number of leading characters of str that [^\/] matches
RECURSIVE NonSlashRun(_)
NonSlashRun(str) ==
    IF str = << >> \/ Head(str) = "/" THEN 0 ELSE 1 + NonSlashRun(Tail(str))

NoMatch == [ok |-> FALSE, groups |-> << >>]

\* re.match of "^" rex "$": a group takes one or more characters, the most
\* that lets the rest of the regex match
RECURSIVE match(_, _)
match(rex, str) ==
    IF rex = << >> THEN [ok |-> str = << >>, groups |-> << >>]
    ELSE IF Head(rex).kind = "literal"
    THEN IF str # << >> /\ Head(str) = Head(rex).s
         THEN match(Tail(rex), Tail(str))
         ELSE NoMatch
    ELSE LET rest(n) == SubSeq(str, n + 1, Len(str))
             good == { n \in 1 .. NonSlashRun(str) : match(Tail(rex), rest(n)).ok }
         IN  IF good = {} THEN NoMatch
             ELSE LET n == CHOOSE k \in good : \A l \in good : l <= k
                  IN  [ok |-> TRUE,
                       groups |-> (Head(rex).s :> SubSeq(str, 1, n))
                                  @@ match(Tail(rex), rest(n)).groups]

\* PTypedKey.extract_params
extract_params(pattern, relpath) ==
    LET m == match(rex_reverse(pattern), relpath)
    IN  IF m.ok THEN m.groups ELSE << >>

HasSlash(val) == \E i \in DOMAIN val : val[i] = "/"

\* PTypedKey.__call__(**kw): ValueError if a value holds "/", else the TypedKey
\* of the formatted relpath with params = kw
PTypedKeyCall(pattern, kw) ==
    /\ up
    /\ pcall' = << [pattern |-> pattern, kw |-> kw,
                    raised |-> \E name \in DOMAIN kw : HasSlash(kw[name]),
                    relpath |-> IF \E name \in DOMAIN kw : HasSlash(kw[name])
                                THEN << >> ELSE format(pattern, kw)] >>
    /\ UNCHANGED << changelog, index, files, tmpfiles, state_after, fs_done,
                    crashed_in, readonly, master, called, notivars, up, next_serial,
                    write_lock, pc, tx, conn, fsw, ret, commits >>

\* extract_params on the relpath of the key that the call returned
ExtractParams ==
    /\ up /\ Len(pcall) = 1 /\ ~pcall[1].raised
    /\ pcall' = Append(pcall, [params |-> extract_params(pcall[1].pattern,
                                                         pcall[1].relpath)])
    /\ UNCHANGED << changelog, index, files, tmpfiles, state_after, fs_done,
                    crashed_in, readonly, master, called, notivars, up, next_serial,
                    write_lock, pc, tx, conn, fsw, ret, commits >>

\* ---------------------------------------------------------- specifications
\* KeyFS.__init__ on an empty basedir, whatever the mode
InitEngine ==
    /\ changelog = << >>
    /\ index = EmptyMap
    /\ files = [p \in Paths |-> 0]
    /\ tmpfiles = [p \in Paths |-> 0]
    /\ evfile = Missing
    /\ up = TRUE
    /\ next_serial = 0
    /\ write_lock = FALSE
    /\ pc = [t \in Threads |-> "idle"]
    /\ tx = [t \in Threads |-> NoTx]
    /\ conn = [t \in Threads |-> NoConn]
    /\ fsw = [t \in Threads |-> NoFsw]
    /\ ret = [t \in Threads |-> NoRet]
    /\ npc = "off"
    /\ event_serial = -1
    /\ shutdown = "no"
    /\ cv_tx = {}
    /\ wpc = "idle"
    /\ wserial = -1
    /\ state_after = << >>
    /\ commits = << >>
    /\ fs_done = [files |-> [p \in Paths |-> 0], tmpfiles |-> [p \in Paths |-> 0],
                  ok |-> TRUE]
    /\ crashed_in = [phase |-> "none", serial |-> -1]
    /\ fired = << >>
    /\ runfired = 0
    /\ master = << >>
    /\ pcall = << >>
    /\ called = << >>

\* KeyFS(basedir, storage): readonly defaults to False
Init == InitEngine /\ readonly = FALSE

\* KeyFS(basedir, storage, readonly): either mode
InitAnyMode == InitEngine /\ readonly \in BOOLEAN

Writer == "t1"
Reader == "t2"

\* what a thread in a write transaction, or importing, can do next
WriterNext(t) ==
    \/ BeginWrite(t)
    \/ \E k \in Keys, v \in Values : Set(t, k, v)
    \/ \E k \in Keys : Delete(t, k)
    \/ (Len(changelog) < MaxSerial /\ CommitStart(t))
    \/ WriteChangelog(t)
    \/ IncrSerial(t)
    \/ NotifyOnCommit(t)
    \/ CommitClose(t)
    \/ \E s \in 0 .. MaxSerial, ch \in ImportBatches :
          Len(changelog) < MaxSerial /\ ImportChanges(t, s, ch)

\* what a thread in a read transaction can do next
ReaderNext(t) ==
    \/ \E at_serial \in -1 .. MaxSerial : BeginRead(t, at_serial)
    \/ \E k \in Keys : Get(t, k)
    \/ Rollback(t)

\* a thread that writes and imports, a thread that reads, on a store without
\* side files
Next == WriterNext(Writer) \/ ReaderNext(Reader)

Spec == Init /\ [][Next]_vars


Contenders == {"t1", "t2"}

\* two threads compete for the write mutex with write transactions (also from
\* a restarted read transaction, also with nothing to commit), rollbacks and
\* imports; one key, one value
WritersNext ==
    \E t \in Contenders :
        \/ BeginWrite(t)
        \/ BeginRead(t, get_current_serial)
        \/ RestartAsWrite(t)
        \/ Set(t, "k1", 1)
        \/ Rollback(t)
        \/ (Len(commits) < MaxCommits /\ CommitEmpty(t))
        \/ (Len(changelog) < MaxWrites /\ CommitStart(t))
        \/ WriteChangelog(t)
        \/ IncrSerial(t)
        \/ NotifyOnCommit(t)
        \/ CommitClose(t)
        \/ \E s \in 0 .. MaxWrites :
              Len(changelog) < MaxWrites /\ ImportChanges(t, s, [k \in {"k1"} |-> 1])

SpecWriters == Init /\ [][WritersNext]_vars

\* scenario 3 of the spec: every thread opens a write transaction, or a read
\* transaction that it restarts as a write transaction, reads the counter k1
\* (0 when absent), sets it to the value read plus one and commits
Done(t) == \E i \in 1 .. Len(commits) : commits[i].thread = t

CounterBeginWrite(t) == ~Done(t) /\ BeginWrite(t)

CounterBeginRead(t) == ~Done(t) /\ BeginRead(t, get_current_serial)

CounterRestart(t) == RestartAsWrite(t)

CounterGet(t) ==
    /\ tx[t].write /\ ret[t] = NoRet
    /\ GetBody(t, "k1")
    /\ ret' = [ret EXCEPT ![t] = tx_get(t, "k1").val]

CounterSet(t) ==
    /\ ret[t] # NoRet /\ "k1" \notin tx[t].dirty
    /\ Set(t, "k1", ret[t] + 1)

CounterCommit(t) == "k1" \in tx[t].dirty /\ CommitStart(t)

CounterNext ==
    \E t \in Threads :
        \/ CounterBeginWrite(t)
        \/ CounterBeginRead(t)
        \/ CounterRestart(t)
        \/ CounterGet(t)
        \/ CounterSet(t)
        \/ CounterCommit(t)
        \/ WriteChangelog(t)
        \/ IncrSerial(t)
        \/ NotifyOnCommit(t)
        \/ CommitClose(t)

SpecCounter == Init /\ [][CounterNext]_vars

\* one thread writes side files in write transactions; the process may die
\* at any moment and is started again
FSNext ==
    \/ BeginWrite(Writer)
    \/ \E p \in Paths, c \in Contents \cup {None} : StageFile(Writer, p, c)
    \/ Rollback(Writer)
    \/ (Len(changelog) < MaxSerial /\ CommitStart(Writer))
    \/ ExitStageFile(Writer)
    \/ WriteChangelog(Writer)
    \/ CommitRenameStep(Writer)
    \/ IncrSerial(Writer)
    \/ NotifyOnCommit(Writer)
    \/ CommitClose(Writer)
    \/ Crash
    \/ Restart
    \/ CrashInRestart

SpecFS == Init /\ [][FSNext]_vars

\* the steps of one commit of the writer that changes keys only
CommitSteps ==
    \/ WriteChangelog(Writer)
    \/ IncrSerial(Writer)
    \/ NotifyOnCommit(Writer)
    \/ CommitClose(Writer)

\* the writer's transactions
WriterSteps ==
    \/ BeginWrite(Writer)
    \/ \E k \in Keys : Set(Writer, k, 1)
    \/ (Len(changelog) < MaxSerial /\ CommitStart(Writer))
    \/ CommitSteps

\* the steps of the notifier thread
NotifierSteps ==
    \/ ThreadRunStart
    \/ Dispatch(NoRaisers)
    \/ WriteEventSerial
    \/ LeaveInnerLoop
    \/ CaughtUpCheck
    \/ WaitNewTransaction
    \/ Woken

\* the steps of a thread that calls wait_event_serial
WaiterSteps ==
    \/ \E s \in 0 .. MaxSerial - 1 : WaitEventSerial(s)
    \/ WaitEventSerialWoken

\* the writer commits while the notifier runs; the notifier may be shut down,
\* and the process may die at any moment and be started again
NotifyNext ==
    \/ WriterSteps
    \/ NotifierSteps
    \/ WaiterSteps
    \/ SetShutdown
    \/ ThreadShutdown
    \/ (Len(fired) < MaxFired /\ Crash)
    \/ Restart

SpecNotify == Init /\ [][NotifyNext]_vars

\* the writer commits while the notifier runs, with no shutdown and no crash
LiveNext ==
    \/ WriterSteps
    \/ NotifierSteps
    \/ WaiterSteps

\* every thread that can take a step is scheduled in the end: a commit that
\* has begun runs to its end, the notifier and the waiting thread run on
SpecLive ==
    /\ Init /\ [][LiveNext]_vars
    /\ WF_vars(CommitSteps)
    /\ WF_vars(NotifierSteps)
    /\ WF_vars(WaiterSteps)

\* two threads run write transactions in the transaction() scope: the body
\* may raise (rollback), the commit may raise inside the FSWriter scope or in
\* write_changelog_entry
FailNext ==
    \E t \in Contenders :
        \/ BeginWrite(t)
        \/ \E k \in Keys : Set(t, k, 1)
        \/ Delete(t, "k1")
        \/ StageFile(t, "f1", 1)
        \/ Rollback(t)
        \/ (Len(changelog) < MaxWrites /\ CommitStart(t))
        \/ \E done \in SUBSET Keys : CommitBodyRaises(t, done)
        \/ ExitStageFile(t)
        \/ ExitRollback(t)
        \/ WriteChangelog(t)
        \/ WriteChangelogRaises(t)
        \/ CommitRenameStep(t)
        \/ IncrSerial(t)
        \/ NotifyOnCommit(t)
        \/ CommitClose(t)
        \/ CommitFailClose(t)
        \/ BeginInStale(t)

SpecFail == Init /\ [][FailNext]_vars

\* two threads import batches, at the next serial and at others; an import
\* subscriber may raise
ImportNext ==
    \E t \in Contenders :
        \/ \E s \in 0 .. MaxSerial, ch \in ImportBatches :
              Len(changelog) < MaxSerial /\ ImportChanges(t, s, ch)
        \/ \E ch \in ImportBatches, done \in SUBSET Keys, staged \in BOOLEAN :
              ImportChangesRaises(t, ch, done, staged)
        \/ ExitStageFile(t)
        \/ ExitRollback(t)
        \/ CommitFailClose(t)
        \/ WriteChangelog(t)
        \/ IncrSerial(t)
        \/ NotifyOnCommit(t)
        \/ CommitClose(t)

SpecImport == Init /\ [][ImportNext]_vars

\* a master engine commits; then its changes are replayed, serial by serial,
\* with import_changes into an engine that starts empty
ReplayNext ==
    \/ (Len(master) = 0 /\ BeginWrite(Writer))
    \/ \E k \in Keys, v \in Values : Set(Writer, k, v)
    \/ \E k \in Keys : Delete(Writer, k)
    \/ (Len(changelog) < MaxSerial /\ CommitStart(Writer))
    \/ WriteChangelog(Writer)
    \/ IncrSerial(Writer)
    \/ NotifyOnCommit(Writer)
    \/ CommitClose(Writer)
    \/ ExportToReplica
    \/ ( /\ Len(master) = 1 /\ next_serial < master[1].next_serial
         /\ ImportChanges(Writer, next_serial, MasterChanges(next_serial)) )

SpecReplay == Init /\ [][ReplayNext]_vars

\* two threads on an engine of either mode: read and write transactions,
\* writes tried on read transactions, commits, and imports (which a read-only
\* engine takes too)
ReadOnlyNext ==
    \E t \in Contenders :
        \/ BeginRead(t, get_current_serial)
        \/ BeginWrite(t)
        \/ BeginWriteReadOnly(t)
        \/ RestartAsWrite(t)
        \/ RestartAsWriteReadOnly(t)
        \/ Get(t, "k1")
        \/ Set(t, "k1", 1)
        \/ WriteOnRead(t)
        \/ Rollback(t)
        \/ (Len(commits) < MaxCommits /\ CommitEmpty(t))
        \/ (Len(changelog) < MaxWrites /\ CommitStart(t))
        \/ WriteChangelog(t)
        \/ IncrSerial(t)
        \/ NotifyOnCommit(t)
        \/ CommitClose(t)
        \/ ( /\ Len(changelog) < MaxWrites
             /\ ImportChanges(t, next_serial, [k \in {"k1"} |-> 1]) )

SpecReadOnly == InitAnyMode /\ [][ReadOnlyNext]_vars

\* the steps of a thread that has called wait_event_serial or wait_tx_serial
\* and was woken
WokenWaiterSteps ==
    \/ WaitEventSerialWoken
    \/ WaitTxSerialWoken

\* the writer commits while the notifier runs and a thread waits for a serial;
\* the notifier is shut down
ShutdownNext ==
    \/ WriterSteps
    \/ NotifierSteps
    \/ \E s \in 0 .. MaxSerial - 1 : WaitEventSerial(s)
    \/ \E s \in 0 .. MaxSerial - 1 : WaitTxSerial(s)
    \/ WokenWaiterSteps
    \/ SetShutdown
    \/ ThreadShutdown

\* every thread that can take a step is scheduled in the end, and the broadcast
\* of thread_shutdown follows the setting of the flag
SpecShutdown ==
    /\ Init /\ [][ShutdownNext]_vars
    /\ WF_vars(CommitSteps)
    /\ WF_vars(NotifierSteps)
    /\ WF_vars(WokenWaiterSteps)
    /\ WF_vars(ThreadShutdown)

\* keys are made from the registered patterns and their parameters extracted
ParamNext ==
    \/ \E pattern \in Patterns :
          \E kw \in [PlaceholderNames(pattern) -> ParamValues] :
             PTypedKeyCall(pattern, kw)
    \/ ExtractParams

SpecParam == Init /\ [][ParamNext]_vars

\* a writer commits transactions with and without changes, a reader commits
\* read transactions, while the notifier runs and a thread waits in
\* wait_tx_serial
EmptyNext ==
    \/ BeginWrite(Writer)
    \/ Set(Writer, "k1", 1)
    \/ StageFile(Writer, "f1", 1)
    \/ \E at_serial \in -1 .. MaxWrites : BeginRead(Reader, at_serial)
    \/ \E t \in {Writer, Reader} : Len(commits) < MaxCommits /\ CommitEmpty(t)
    \/ (Len(changelog) < MaxWrites /\ CommitStart(Writer))
    \/ ExitStageFile(Writer)
    \/ WriteChangelog(Writer)
    \/ CommitRenameStep(Writer)
    \/ IncrSerial(Writer)
    \/ NotifyOnCommit(Writer)
    \/ CommitClose(Writer)
    \/ NotifierSteps
    \/ \E s \in 0 .. MaxWrites - 1 : WaitTxSerial(s)
    \/ WaitTxSerialWoken

SpecEmpty == Init /\ [][EmptyNext]_vars

\* the steps of the notifier thread when subscribers may raise
HookNotifierSteps ==
    \/ ThreadRunStart
    \/ \E raisers \in SUBSET HookPairs : Dispatch(raisers)
    \/ WriteEventSerial
    \/ LeaveInnerLoop
    \/ CaughtUpCheck
    \/ WaitNewTransaction
    \/ Woken

\* the writer commits while the notifier dispatches to subscribers, any of
\* which may raise
HooksNext ==
    \/ BeginWrite(Writer)
    \/ \E k \in Keys : Set(Writer, k, 1)
    \/ (Len(changelog) < MaxSerial /\ CommitStart(Writer))
    \/ CommitSteps
    \/ HookNotifierSteps

\* a commit that has begun runs to its end and the notifier thread runs on
SpecHooks ==
    /\ Init /\ [][HooksNext]_vars
    /\ WF_vars(CommitSteps)
    /\ WF_vars(HookNotifierSteps)

\* two threads begin, restart, commit, roll back and import; commits and
\* imports may raise, and the storage may fail to open a connection
MutexNext ==
    \E t \in Contenders :
        \/ BeginWrite(t)
        \/ BeginWriteConnFails(t)
        \/ BeginRead(t, get_current_serial)
        \/ RestartAsWrite(t)
        \/ RestartAsWriteConnFails(t)
        \/ Set(t, "k1", 1)
        \/ Rollback(t)
        \/ (Len(commits) < MaxCommits /\ CommitEmpty(t))
        \/ (Len(changelog) < MaxWrites /\ CommitStart(t))
        \/ \E done \in SUBSET Keys : CommitBodyRaises(t, done)
        \/ ExitRollback(t)
        \/ WriteChangelog(t)
        \/ WriteChangelogRaises(t)
        \/ IncrSerial(t)
        \/ NotifyOnCommit(t)
        \/ CommitClose(t)
        \/ CommitFailClose(t)
        \/ ( /\ Len(changelog) < MaxWrites
             /\ ImportChanges(t, next_serial, [k \in {"k1"} |-> 1]) )
        \/ \E done \in SUBSET {"k1"} :
              ImportChangesRaises(t, [k \in {"k1"} |-> 1], done, FALSE)
        \/ ImportConnFails(t)

SpecMutex == Init /\ [][MutexNext]_vars

\* two threads commit keys and side files; a rename of the commit may raise
SerialNext ==
    \E t \in Contenders :
        \/ BeginWrite(t)
        \/ Set(t, "k1", 1)
        \/ \E c \in Contents : StageFile(t, "f1", c)
        \/ Rollback(t)
        \/ (Len(commits) < MaxCommits /\ CommitEmpty(t))
        \/ (Len(changelog) < MaxWrites /\ CommitStart(t))
        \/ ExitStageFile(t)
        \/ WriteChangelog(t)
        \/ WriteChangelogRaises(t)
        \/ CommitRenameStep(t)
        \/ CommitRenameRaises(t)
        \/ IncrSerial(t)
        \/ NotifyOnCommit(t)
        \/ CommitClose(t)
        \/ CommitFailClose(t)

SpecSerial == Init /\ [][SerialNext]_vars

\* ------------------------------------------------------------------ claims
\* the value key k held immediately after commit s; None: never set, or deleted
HeldAfter(k, s) ==
    IF s < 0 \/ Len(state_after) = 0 THEN None
    ELSE IF s + 1 <= Len(state_after) THEN state_after[s + 1][k]
         ELSE state_after[Len(state_after)][k]

\* a thread is somewhere inside the commit of a write transaction or an import
Committing(t) == pc[t] \in {"exit", "renames", "notify", "close"}

WritesUpTo(k, s) ==
    { i \in 0 .. s : i < Len(changelog) /\ k \in DOMAIN changelog[i + 1].changes }

\* the value written by the latest commit at or before s that contains k
LatestWritten(k, s) ==
    IF WritesUpTo(k, s) = {} THEN KeyError
    ELSE LET v == changelog[Max(WritesUpTo(k, s)) + 1].changes[k].val
         IN  IF v = None THEN KeyError ELSE v

\* C2 Time travel: for every key k and serial s >= 0, get_value_at(k, s) is
\* the value written by the latest commit at or before s that contains k, and
\* KeyError when there is none or when that commit deleted k.
C2_TimeTravel ==
    \A k \in Keys : \A s \in 0 .. MaxSerial :
        get_value_at(k, s, get_connection) = LatestWritten(k, s)

\* a key set at serial 0 and deleted at serial 1: a value at 0, KeyError at 1
C2_Witness ==
    /\ Len(changelog) = 2
    /\ \E k \in Keys :
        /\ WritesUpTo(k, 1) = {0, 1}
        /\ get_value_at(k, 0, get_connection) \in Values
        /\ get_value_at(k, 1, get_connection) = KeyError


\* a thread holds the write mutex: it is in a write transaction or inside an
\* import
HoldsWriteLock(t) == tx[t].write \/ Committing(t)

\* the indices of commits at which a write transaction wrote an entry
WroteAt == { i \in 1 .. Len(commits) : commits[i].wrote /\ ~commits[i].import }

\* C3 At most one writer: at most one thread is in a write transaction or an
\* import at any time; every commit that wrote a changelog entry returns the
\* serial at which it wrote it; the serials returned, in the order in which
\* the commits returned, are strictly increasing (hence pairwise distinct).
C3_AtMostOneWriter ==
    /\ Cardinality({ t \in Threads : HoldsWriteLock(t) }) <= 1
    /\ \A i \in WroteAt : commits[i].serial = commits[i].written_at
    /\ \A i \in WroteAt : \A j \in WroteAt : i < j => commits[i].serial < commits[j].serial

\* both threads have committed entries, and now one holds the mutex while the
\* other is in a read transaction that it can only restart as a write
\* transaction once the mutex is free
C3_Witness ==
    /\ \E i \in WroteAt : \E j \in WroteAt : commits[i].thread # commits[j].thread
    /\ \E t \in Threads : HoldsWriteLock(t)
    /\ \E t \in Threads : pc[t] = "open" /\ ~tx[t].write

\* every thread has run the counter program to its end
AllDone == \A t \in Threads : Done(t) /\ pc[t] = "idle"

\* C4 No lost updates: once every one of the T threads has incremented the
\* counter, its committed value is T and the commit serials are exactly
\* 0 .. T-1; the at_serial of an open write transaction is the latest
\* committed serial.
C4_NoLostUpdates ==
    /\ AllDone =>
        /\ get_value_at("k1", get_current_serial, get_connection) = Cardinality(Threads)
        /\ { commits[i].serial : i \in 1 .. Len(commits) } = 0 .. Cardinality(Threads) - 1
        /\ Len(commits) = Cardinality(Threads)
    /\ \A t \in Threads :
        (pc[t] = "open" /\ tx[t].write) =>
            /\ tx[t].at_serial = get_current_serial
            /\ tx[t].at_serial = Len(changelog) - 1

\* all threads are done, and the thread that committed last was not t3
C4_Witness == AllDone /\ commits[Len(commits)].thread # "t3"

\* the threads that have incremented next_serial and not yet returned
InFlight == { t \in Threads : pc[t] \in {"notify", "close"} }

\* C5 as stated: next_serial has grown by one for every commit of a write
\* transaction that returned (imports counted too), whatever it had to write
C5_AsStated ==
    next_serial = Len(commits) + Cardinality(InFlight)

\* C5 Monotonic serials, amended: next_serial has grown by exactly one for
\* every commit (or import) that had something to write and by nothing for a
\* commit of a write transaction with nothing dirty; it never decreases.
C5_MonotonicSerials ==
    next_serial =
        Cardinality({ i \in 1 .. Len(commits) : commits[i].wrote }) + Cardinality(InFlight)

\* a write transaction with nothing dirty has committed, and so has one that wrote
C5_Witness ==
    /\ \E i \in 1 .. Len(commits) : ~commits[i].wrote
    /\ \E i \in 1 .. Len(commits) : commits[i].wrote /\ ~commits[i].import
    /\ next_serial = 2


\* the entry of the commit thread t is in has been written
EntryDurable(t) ==
    /\ Committing(t)
    /\ fsw[t].commit_serial >= 0 /\ fsw[t].commit_serial < Len(changelog)
    /\ changelog[fsw[t].commit_serial + 1] =
         [changes |-> fsw[t].changes,
          rel_renames |-> make_rel_renames(fsw[t].pending_renames)]

\* C6 Durability ordering: a step of a running process that renames a staged
\* file onto its path or removes a path, that increments next_serial, or that
\* notifies the waiters, is taken by a commit whose changelog entry, with
\* exactly its changes and rel_renames, has been written before.
C6_DurabilityOrdering ==
    [][ (up /\ up') =>
          /\ (files' # files) => \E t \in Threads : EntryDurable(t)
          /\ (next_serial' # next_serial) =>
                \E t \in Threads :
                    EntryDurable(t) /\ next_serial' = fsw[t].commit_serial + 1
          /\ \A t \in Threads :
                (pc[t] = "notify" /\ pc'[t] = "close") => EntryDurable(t) ]_vars

\* a commit has replaced an existing file and removed another one
C6_Witness ==
    /\ pc[Writer] = "renames" /\ fsw[Writer].i > 2
    /\ Len(changelog) = 2
    /\ \E p \in Paths, q \in Paths : files[p] = 2 /\ files[q] = 0 /\ p # q
    /\ \E j \in 1 .. 2 : ~fsw[Writer].rel_renames[j].tmp

\* every entry of rel_renames has taken effect on the side files f, t
RenamesDone(rel_renames, f, t) ==
    \A i \in 1 .. Len(rel_renames) :
        IF rel_renames[i].tmp
        THEN f[rel_renames[i].path] # 0 /\ t[rel_renames[i].path] = 0
        ELSE f[rel_renames[i].path] = 0

\* C7 Crash recovery: when the process died inside the commit of serial s
\* after write_changelog_entry (before, between or after the renames and
\* removals, also if the restart itself died in the replay), the next start
\* succeeds, and after it current_serial = s and the side files are those of
\* the completed commit: every "-tmp" entry of rel_renames exists under its
\* stripped path with no "-tmp" file left, every plain entry is absent.
C7_CrashRecovery ==
    /\ []((~up /\ crashed_in.phase = "commit") => Recovered.ok)
    /\ [][ (~up /\ up' /\ crashed_in.phase = "commit") =>
             /\ next_serial' - 1 = crashed_in.serial
             /\ files' = fs_done.files
             /\ tmpfiles' = fs_done.tmpfiles
             /\ RenamesDone(LastRenames, files', tmpfiles') ]_vars

\* the process died in a commit between two renames, one done, one not, and
\* is running again
C7_Witness ==
    /\ up /\ crashed_in.phase = "commit" /\ crashed_in.serial = 1
    /\ Len(LastRenames) = 2
    /\ \A p \in Paths : files[p] = 2
    /\ pc[Writer] = "idle"

\* the process is down and did not die inside a commit: the last commit,
\* if any, completed normally
DownAfterCompletedCommit == ~up /\ crashed_in.phase # "commit"

\* C8 Idempotent recovery: replaying the last entry's rel_renames twice
\* leaves the side files as replaying them once does, and on a store whose
\* last commit completed normally the replay changes nothing and does not fail.
C8_IdempotentRecovery ==
    /\ Recovered.ok =>
         check_pending_renames(Recovered, LastRenames, 1, Len(LastRenames)) = Recovered
    /\ DownAfterCompletedCommit => Recovered = FsNow


\* the last serial the hooks were dispatched for
LastFired == IF Len(fired) = 0 THEN -1 ELSE fired[Len(fired)]

\* the serials dispatched since the process was started
RunFired == SubSeq(fired, Len(fired) - runfired + 1, Len(fired))

\* C9 Subscriber ordering (as stated): every serial is dispatched exactly once
\* and in increasing order, and outside of the step from the dispatch to the
\* cursor write the persisted cursor is the last dispatched serial, also
\* across shutdown, crash and restart.
C9_AsStated ==
    /\ \A i \in 1 .. Len(fired) : fired[i] = i - 1
    /\ npc # "write" => read_event_serial = LastFired

\* C9 Subscriber ordering (amended): within one run of the process the serials
\* are dispatched one by one in increasing order, each once; over all runs a
\* serial is dispatched again only as the first one of a run, directly after
\* its first dispatch; every dispatched serial is committed, every serial up
\* to the cursor has been dispatched; the cursor is the last dispatched
\* serial or, between a dispatch and its cursor write and after a crash
\* there, the one before.
C9_SubscriberOrdering ==
    /\ \A i \in 2 .. Len(RunFired) : RunFired[i] = RunFired[i - 1] + 1
    /\ Len(fired) > 0 => fired[1] = 0
    /\ \A i \in 2 .. Len(fired) : fired[i] \in {fired[i - 1], fired[i - 1] + 1}
    /\ \A i \in 1 .. Len(fired) : fired[i] < Len(changelog)
    /\ \A s \in 0 .. read_event_serial : \E i \in 1 .. Len(fired) : fired[i] = s
    /\ read_event_serial \in {LastFired, LastFired - 1}
    /\ npc = "write" => (event_serial = LastFired /\ read_event_serial = LastFired - 1)
    /\ (npc \notin {"off", "write"}) => read_event_serial = event_serial
    /\ (runfired > 0 /\ npc # "write") => read_event_serial = LastFired

\* the process died between the dispatch of serial 0 and the cursor write;
\* the next run has dispatched 0 again and then 1, and has written the cursor
C9_Witness ==
    /\ up /\ fired = << 0, 0, 1 >> /\ read_event_serial = 1
    /\ npc = "waiting"

\* C10 Notifier liveness: with the notifier thread running and no shutdown,
\* every committed serial s is dispatched in the end and the cursor reaches
\* s, and a wait_event_serial(s) for a committed s returns in the end.
C10_NotifierLiveness ==
    /\ \A s \in 0 .. MaxSerial - 1 :
          (npc # "off" /\ next_serial > s) ~>
              (read_event_serial >= s /\ \E i \in 1 .. Len(fired) : fired[i] = s)
    /\ (npc # "off" /\ wpc = "waiting" /\ wserial < next_serial) ~> (wpc = "returned")


\* thread t has a transaction bound: hasattr(keyfs._threadlocal, "tx")
Bound(t) == pc[t] # "idle"

\* thread t is inside a transaction() block or inside its exit
InScope(t) ==
    pc[t] \in {"open", "exit", "exit_err", "renames", "notify", "close", "failed"}

\* C11 Transaction scope: a thread that has left its transaction() block, by
\* a commit, by a rollback or by a commit that raised, has no transaction
\* bound, and no begin on it fails on the assertion that none is bound.
C11_TransactionScope ==
    \A t \in Threads : (Bound(t) => InScope(t)) /\ ret[t] # AssertionError

\* thread t is handling an exception of its commit
Failing(t) == pc[t] \in {"exit_err", "failed"}

\* C12 Rollback on error: while a thread handles an exception raised inside
\* the FSWriter scope or by write_changelog_entry, next_serial and the
\* changelog do not change and nobody is notified; when it is through, no
\* path-tmp file that the transaction staged is left.
C12_RollbackOnError ==
    [][ \A t \in Threads :
          /\ (Failing(t) \/ Failing(t)') =>
                /\ next_serial' = next_serial
                /\ changelog' = changelog
                /\ cv_tx' = cv_tx /\ npc' = npc
          /\ (pc[t] = "failed" /\ pc'[t] # "failed") =>
                \A p \in DOMAIN conn[t].dirty_files :
                    conn[t].dirty_files[p] # None => tmpfiles'[p] = 0 ]_vars


\* the entry at serial s records the deletion of k
DeletedAt(k, s) ==
    /\ s >= 0 /\ s < Len(changelog)
    /\ k \in DOMAIN changelog[s + 1].changes
    /\ changelog[s + 1].changes[k].val = None

\* no entry at a serial in s+1 .. a changes k
NoLaterWrite(k, s, a) ==
    \A r \in (s + 1) .. a : r < Len(changelog) => k \notin DOMAIN changelog[r + 1].changes

\* C13 Delete semantics: right after delete(k) in a write transaction, also
\* after a set(k, v) before it, exists(k) is false and get(k) returns the
\* empty value of the key's type; the commit records the deletion of every
\* dirty key without a cached value; get_value_at(k, s) raises KeyError for
\* the serial s of a recorded deletion, and exists(k) is false in every open
\* transaction at s or at a later serial up to which k was not set again,
\* unless the transaction itself has changed k.
C13_DeleteSemantics ==
    /\ [][ \A t \in Threads, k \in Keys :
              Delete(t, k) =>
                 /\ (~tx_exists(t, k))'
                 /\ (tx_get(t, k).val = EmptyVal)'
                 /\ (k \in tx[t].dirty)' ]_vars
    /\ [][ \A t \in Threads :
              (pc[t] = "open" /\ pc'[t] = "exit") =>
                 \A k \in tx[t].dirty \ DOMAIN tx[t].cache :
                     /\ k \in DOMAIN fsw'[t].changes
                     /\ fsw'[t].changes[k].val = None ]_vars
    /\ [][ \A t \in Threads :
              (pc[t] = "exit" /\ pc'[t] = "renames") =>
                 changelog'[Len(changelog')].changes = fsw[t].changes ]_vars
    /\ [](\A k \in Keys, s \in 0 .. MaxSerial :
              DeletedAt(k, s) =>
                 /\ get_value_at(k, s, get_connection) = KeyError
                 /\ \A t \in Threads :
                       ( /\ pc[t] = "open" /\ tx[t].at_serial >= s
                         /\ NoLaterWrite(k, s, tx[t].at_serial)
                         /\ k \notin tx[t].dirty )
                       => (~tx_exists(t, k) /\ tx_get(t, k).val = EmptyVal))

\* k1 was set at serial 0 and deleted at serial 1 by a transaction that had
\* set it before; a read transaction at serial 1 is open
C13_Witness ==
    /\ Len(changelog) = 2
    /\ "k1" \in DOMAIN changelog[1].changes
    /\ changelog[1].changes["k1"].val # None
    /\ DeletedAt("k1", 1)
    /\ \E i \in 1 .. Len(commits) : commits[i].serial = 1 /\ ~commits[i].import
    /\ pc[Reader] = "open" /\ tx[Reader].at_serial = 1


C15_ImportEquivalence ==
    (Len(master) = 1 /\ \A t \in Threads : pc[t] = "idle") =>
        /\ next_serial = Len(changelog)
        /\ \A s \in 0 .. Len(changelog) - 1 :
              changelog[s + 1].changes = master[1].changelog[s + 1].changes
        /\ next_serial = master[1].next_serial =>
              /\ index = master[1].index
              /\ \A k \in Keys, s \in -1 .. MaxSerial :
                    get_value_at(k, s, get_connection) = master[1].values[k][s]

\* the master set k1, then deleted k1 and set k2; the replica has replayed both
C15_Witness ==
    /\ Len(master) = 1 /\ \A t \in Threads : pc[t] = "idle"
    /\ next_serial = 2 /\ master[1].next_serial = 2
    /\ DeletedAt("k1", 1) /\ changelog[2].changes["k1"].back_serial = 0
    /\ "k2" \in DOMAIN changelog[2].changes
    /\ \A i \in 1 .. Len(commits) : commits[i].import


\* thread t is in an import
Importing(t) == fsw[t].import /\ pc[t] # "idle"

\* C16 ReadOnly errors: a read transaction never has a dirty key, and what it
\* has cached are values of the store at its serial; on a read-only engine no
\* thread is ever bound to a write transaction and the write mutex is held
\* by imports only; a step that returns ReadOnly changes only what the caller
\* is returned; the commit of a read transaction leaves next_serial, the
\* changelog and the primary index unchanged.
C16_ReadOnlyErrors ==
    /\ [](\A t \in Threads :
            (pc[t] = "open" /\ ~tx[t].write) =>
               /\ tx[t].dirty = {}
               /\ \A k \in DOMAIN tx[t].cache :
                     tx[t].cache[k] = get_value_at(k, tx[t].at_serial, get_connection))
    /\ [](readonly =>
            /\ \A t \in Threads : ~tx[t].write
            /\ write_lock => \E t \in Threads : Importing(t))
    /\ [][ \A t \in Threads :
             (ret'[t] = ReadOnly /\ ret[t] # ReadOnly) =>
                 UNCHANGED << write_lock, pc, tx, conn, fsw, next_serial, changelog,
                              index >> ]_vars
    /\ [][ \A t \in Threads :
             (pc[t] = "open" /\ ~tx[t].write /\ pc'[t] = "idle") =>
                 UNCHANGED << next_serial, changelog, index >> ]_vars

\* on a read-only engine that has imported a batch, a thread in a read
\* transaction was refused a write and is in its read transaction still
C16_Witness ==
    /\ readonly /\ Len(changelog) = 1
    /\ \E t \in Threads :
          /\ pc[t] = "open" /\ ret[t] = ReadOnly
          /\ DOMAIN tx[t].cache = {"k1"}
    /\ \E t \in Threads : Importing(t)


\* C17 Waits are cancellable by shutdown: a thread that is blocked in
\* wait_tx_serial or wait_event_serial when the notifier is asked to stop
\* returns in the end, thread_shutdown having signalled.
C17_WaitsCancellable ==
    (shutdown = "set" /\ wpc \in {"waiting", "waiting_tx"}) ~> (wpc = "returned")

\* C18 Notifier shutdown: once the flag is set and thread_shutdown has
\* broadcast, the notifier thread leaves its loop in the end, wherever it
\* was; from the moment it has left it dispatches nothing.
C18_NotifierShutdown ==
    /\ (shutdown = "signalled" /\ npc # "off") ~> (npc = "exited")
    /\ [][npc = "exited" => (fired' = fired /\ npc' = "exited")]_vars

\* the parameters that extract_params gave are those of the call
SameParams(params, kw) ==
    /\ DOMAIN params = DOMAIN kw
    /\ \A name \in DOMAIN kw : params[name] = kw[name]

\* C19 Param round-trip: for every pattern and every map of one value per
\* placeholder, a value holding "/" makes the call raise and give no key;
\* otherwise the call gives a key and extract_params of its relpath is the map.
C19_ParamRoundTrip ==
    Len(pcall) >= 1 =>
        /\ pcall[1].raised <=> \E name \in DOMAIN pcall[1].kw : HasSlash(pcall[1].kw[name])
        /\ pcall[1].raised => pcall[1].relpath = << >>
        /\ Len(pcall) = 2 => SameParams(pcall[2].params, pcall[1].kw)

\* no thread is between the opening of an FSWriter and the end of its commit
NoCommitInProgress ==
    \A t \in Threads :
        pc[t] \notin {"exit", "exit_err", "renames", "notify", "close", "failed"}

\* the greatest serial below s whose changes contain relpath, -1 without one
PrevSerial(relpath, s) ==
    LET earlier == { r \in 0 .. s - 1 :
                       r < Len(changelog) /\ relpath \in DOMAIN get_changes(r) }
    IN  IF earlier = {} THEN -1
        ELSE CHOOSE r \in earlier : \A q \in earlier : q <= r

EmptyTx(t) ==
    /\ pc[t] = "open"
    /\ ~tx[t].write \/ (tx[t].dirty = {} /\ DOMAIN conn[t].dirty_files = {})

\* C21 Empty commits leave the store unchanged: the commit of a read
\* transaction, or of a write transaction with nothing dirty, opens no
\* FSWriter, returns at_serial, writes no changelog entry, leaves next_serial,
\* the primary index and the side files as they are, wakes neither the
\* notifier nor a waiting thread, and releases the write mutex if the
\* transaction held it.
C21_EmptyCommits ==
    [][\A t \in Threads :
         /\ EmptyTx(t) => pc'[t] \in {"open", "idle"}
         /\ (EmptyTx(t) /\ CommitEmpty(t)) =>
               /\ ret'[t] = tx[t].at_serial
               /\ changelog' = changelog /\ next_serial' = next_serial
               /\ index' = index /\ files' = files /\ tmpfiles' = tmpfiles
               /\ cv_tx' = cv_tx /\ npc' = npc /\ wpc' = wpc
               /\ tx[t].write => ~write_lock'
               /\ ~tx[t].write => write_lock' = write_lock
               /\ pc'[t] = "idle"]_vars

\* a write transaction with nothing dirty has committed after an entry was
\* written, while the notifier and a thread wait on cv_new_transaction, and
\* the mutex is free
C21_Witness ==
    /\ Len(changelog) = 1 /\ next_serial = 1
    /\ Len(commits) = 2 /\ ~commits[2].wrote /\ commits[2].serial = 0
    /\ ret[Writer] = 0
    /\ pc[Writer] = "idle" /\ ~write_lock
    /\ npc = "waiting" /\ wpc = "waiting_tx"

\* a subscriber raised when serial s was dispatched
RaisedAt(s) ==
    \E i \in DOMAIN called : called[i].serial = s /\ called[i].raised

\* the subscriber calls that a step adds
NewCalls == SubSeq(called', Len(called) + 1, Len(called'))

\* C22 A failing subscriber cannot stall the pipeline: whichever subscribers
\* raise while serial s is dispatched, every subscriber is called once for
\* every changed relpath of s, in order, and the notifier goes on to write its
\* cursor; the persisted cursor reaches s in the end, and a serial s+1 that is
\* committed when the hooks of s return is dispatched in the end.
C22_FailingSubscriber ==
    /\ [][event_serial' = event_serial + 1 =>
            /\ Len(NewCalls) = Len(Subscribers) * Cardinality(DOMAIN get_changes(event_serial'))
            /\ \A k \in DOMAIN get_changes(event_serial') :
                  \A j \in DOMAIN Subscribers :
                     \E i \in DOMAIN NewCalls :
                        /\ NewCalls[i].serial = event_serial'
                        /\ NewCalls[i].relpath = k
                        /\ NewCalls[i].sub = Subscribers[j]
            /\ npc' = "write"
            /\ fired' = Append(fired, event_serial')]_vars
    /\ \A s \in 0 .. MaxSerial - 1 :
          RaisedAt(s) ~> (evfile >= write_event_serial(s))
    /\ \A s \in 0 .. MaxSerial - 2 :
          (RaisedAt(s) /\ npc = "write" /\ event_serial = s
                       /\ get_current_serial >= s + 1)
              ~> (\E i \in DOMAIN fired : fired[i] = s + 1)

\* the first subscriber raised for k1 at serial 0, the cursor was written and
\* serial 1 has been dispatched
C22_Witness ==
    /\ Len(fired) = 2 /\ fired[1] = 0 /\ fired[2] = 1
    /\ evfile = write_event_serial(1)
    /\ RaisedAt(0) /\ ~RaisedAt(1)
    /\ called[1].raised /\ ~called[2].raised

\* thread t is in a write transaction that is open or committing, or in
\* import_changes
InWriteOrImport(t) ==
    /\ pc[t] \notin {"idle", "stale"}
    /\ tx[t].write \/ pc[t] # "open"

\* C23 The write mutex never leaks: whenever no thread is in a write
\* transaction or in import_changes, the write mutex is free.
C23_MutexNeverLeaks ==
    (\A t \in Threads : ~InWriteOrImport(t)) => ~write_lock

\* C24 In-memory serial matches the durable changelog: whenever the write
\* mutex is free, storage.next_serial is the highest serial for which a
\* changelog entry was written plus one (0 with no entry).
C24_SerialMatchesChangelog ==
    ~write_lock => next_serial = Len(changelog)

=============================================================================
